---- MODULE Spec2Model ----
(***************************************************************************)
(* The game-state engine of sudoku-shapes (src/src/main.rs): the 9x9       *)
(* occupancy board, the score, the active piece, and the operations        *)
(* Sudoku::new, Sudoku::shift, Sudoku::legal and Sudoku::place.            *)
(*                                                                         *)
(* board[i][j] follows the source: the first index is the one the code     *)
(* calls a row (board[i] is cleared by the row pass) and the one the       *)
(* piece's x is added to.                                                  *)
(***************************************************************************)
EXTENDS Integers, FiniteSets, Sequences, TLC

\* ---------------------------------------------------------------- constants
N == 9          \* side of the board: [[bool; 9]; 9]
K == 3          \* side of a piece's shape: [[bool; 3]; 3]
Award == 9      \* score += 9 for every cleared row, column or block

\* ------------------------------------------------------------------- bounds
MaxPlace == 1   \* legal placements explored in one behaviour
MaxRun == 7     \* the count of consecutive equal shifts saturates here

Idx == 0 .. (N - 1)
Off == 0 .. (K - 1)
Cells == Idx \X Idx

VARIABLES
  board,    \* Sudoku.board
  score,    \* Sudoku.score
  curr,     \* Sudoku.curr: [x, y, shape]
  nplaced,  \* how many legal placements have been made
  last,     \* history: the last call, the state it was made in, what it cleared
  run       \* history, kept where run.on: the length of the current run of
            \* equal shifts (saturating at MaxRun) and where it began

vars == <<board, score, curr, nplaced, last, run>>

\* ------------------------------------------------------------------- pieces
\* A shape given by the set of its occupied cells.
ShapeOf(S) == [i \in Off |-> [j \in Off |-> <<i, j>> \in S]]

ShapeCells(sh) == {p \in Off \X Off : sh[p[1]][p[2]]}

\* The masks Piece::random is taken to draw.  Every one of the 2^9 masks has
\* positive probability (each cell is gen_ratio(1, 3)); these are the ones
\* explored.
Shapes ==
  { ShapeOf({}),
    ShapeOf({<<0, 0>>}),
    ShapeOf({<<2, 2>>}),
    ShapeOf({<<0, 0>>, <<1, 0>>}),
    ShapeOf({<<0, 0>>, <<0, 1>>}),
    ShapeOf(Off \X Off) }

\* Piece::random(): position (0, 0) and a drawn mask.
random(sh) == [x |-> 0, y |-> 0, shape |-> sh]

\* -------------------------------------------------------------------- board
EmptyBoard == [i \in Idx |-> [j \in Idx |-> FALSE]]

\* The board whose occupied cells are exactly S.
BoardOf(S) == [i \in Idx |-> [j \in Idx |-> <<i, j>> \in S]]

Occupied(b) == {p \in Cells : b[p[1]][p[2]]}

\* ----------------------------------------------------------- Sudoku::legal
\* The nested loops of legal(), flattened to k = K*i + j, with the early
\* return on the first occupied mask cell over an occupied board cell.
RECURSIVE legalFrom(_, _, _)
legalFrom(b, c, k) ==
  IF k = K * K THEN TRUE
  ELSE LET i == k \div K
           j == k % K
       IN  IF ~c.shape[i][j] THEN legalFrom(b, c, k + 1)
           ELSE IF b[c.x + i][c.y + j] THEN FALSE
           ELSE legalFrom(b, c, k + 1)

\* A scan that starts one cell late (for i in 1..).
legalSkipFirst(b, c) == legalFrom(b, c, 1)

\* A scan that wants at least one occupied mask cell.
legalNeedsCell(b, c) ==
  /\ \E i \in Off : \E j \in Off : c.shape[i][j]
  /\ legalFrom(b, c, 0)

legal(b, c) == legalFrom(b, c, 0)

\* ----------------------------------------------------------- Sudoku::place
\* The mask copied with its indices swapped (shape[j][i]).
copyMaskTransposed(b, c) ==
  [i \in Idx |-> [j \in Idx |->
     IF /\ i - c.x \in Off
        /\ j - c.y \in Off
        /\ c.shape[j - c.y][i - c.x]
     THEN TRUE
     ELSE b[i][j]]]

\* The first loop of place(): every occupied mask cell is set on the board.
copyMask(b, c) ==
  [i \in Idx |-> [j \in Idx |->
     IF /\ i - c.x \in Off
        /\ j - c.y \in Off
        /\ c.shape[i - c.x][j - c.y]
     THEN TRUE
     ELSE b[i][j]]]

rowFull(b, i) == \A j \in Idx : b[i][j]
colFull(b, i) == \A j \in Idx : b[j][i]
blockFull(b, i, j) ==
  \A k \in Off : \A l \in Off : b[i * K + k][j * K + l]

\* A row pass that stops one row early (for i in 0..8).
RECURSIVE rowPassShort(_, _)
rowPassShort(st, i) ==
  IF i = N - 1 THEN st
  ELSE IF rowFull(st.board, i)
       THEN rowPassShort([st EXCEPT !.board[i] = [j \in Idx |-> FALSE],
                                    !.score = @ + Award,
                                    !.rows = @ \cup {i}], i + 1)
       ELSE rowPassShort(st, i + 1)

\* "Check rows": for i in 0..9, in place.
RECURSIVE rowPass(_, _)
rowPass(st, i) ==
  IF i = N THEN st
  ELSE IF rowFull(st.board, i)
       THEN rowPass([st EXCEPT !.board[i] = [j \in Idx |-> FALSE],
                               !.score = @ + Award,
                               !.rows = @ \cup {i}], i + 1)
       ELSE rowPass(st, i + 1)

\* A column pass that clears without scoring.
RECURSIVE colPassNoAward(_, _)
colPassNoAward(st, i) ==
  IF i = N THEN st
  ELSE IF colFull(st.board, i)
       THEN colPassNoAward(
              [st EXCEPT !.board = [r \in Idx |-> [@[r] EXCEPT ![i] = FALSE]],
                         !.cols = @ \cup {i}], i + 1)
       ELSE colPassNoAward(st, i + 1)

\* "Check columns": for i in 0..9, in place, on the board the row pass left.
RECURSIVE colPass(_, _)
colPass(st, i) ==
  IF i = N THEN st
  ELSE IF colFull(st.board, i)
       THEN colPass([st EXCEPT !.board = [r \in Idx |-> [@[r] EXCEPT ![i] = FALSE]],
                               !.score = @ + Award,
                               !.cols = @ \cup {i}], i + 1)
       ELSE colPass(st, i + 1)

\* A block pass that awards a full block and leaves its cells occupied.
RECURSIVE blockPassKeepsCells(_, _)
blockPassKeepsCells(st, k) ==
  IF k = K * K THEN st
  ELSE LET i == k \div K
           j == k % K
       IN  IF blockFull(st.board, i, j)
           THEN blockPassKeepsCells([st EXCEPT
                  !.score = @ + Award,
                  !.blocks = @ \cup {<<i, j>>}], k + 1)
           ELSE blockPassKeepsCells(st, k + 1)

\* A block pass that takes the award away (score -= 9).
RECURSIVE blockPassPenalty(_, _)
blockPassPenalty(st, k) ==
  IF k = K * K THEN st
  ELSE LET i == k \div K
           j == k % K
       IN  IF blockFull(st.board, i, j)
           THEN blockPassPenalty([st EXCEPT
                  !.board = [r \in Idx |-> [c \in Idx |->
                               IF r \div K = i /\ c \div K = j THEN FALSE ELSE @[r][c]]],
                  !.score = @ - Award,
                  !.blocks = @ \cup {<<i, j>>}], k + 1)
           ELSE blockPassPenalty(st, k + 1)

\* "Check blocks": for i in 0..3, for j in 0..3, flattened to k = K*i + j.
RECURSIVE blockPass(_, _)
blockPass(st, k) ==
  IF k = K * K THEN st
  ELSE LET i == k \div K
           j == k % K
       IN  IF blockFull(st.board, i, j)
           THEN blockPass([st EXCEPT
                  !.board = [r \in Idx |-> [c \in Idx |->
                               IF r \div K = i /\ c \div K = j THEN FALSE ELSE @[r][c]]],
                  !.score = @ + Award,
                  !.blocks = @ \cup {<<i, j>>}], k + 1)
           ELSE blockPass(st, k + 1)

\* The passes in another order: columns before rows.
placedColsFirst(b, s, c) ==
  blockPass(rowPass(colPass([board |-> copyMask(b, c), score |-> s,
                             rows |-> {}, cols |-> {}, blocks |-> {}], 0), 0), 0)

\* The passes in another order: blocks before rows and columns.
placedBlocksFirst(b, s, c) ==
  colPass(rowPass(blockPass([board |-> copyMask(b, c), score |-> s,
                             rows |-> {}, cols |-> {}, blocks |-> {}], 0), 0), 0)

\* The row and column passes swapped with the block pass kept last.
placedRowsLast(b, s, c) ==
  rowPass(blockPass(colPass([board |-> copyMask(b, c), score |-> s,
                             rows |-> {}, cols |-> {}, blocks |-> {}], 0), 0), 0)

\* All full rows, columns and blocks found on the board as the mask copy
\* left it, then cleared together.
placedSimultaneous(b, s, c) ==
  LET m == copyMask(b, c)
      R == {i \in Idx : rowFull(m, i)}
      C == {i \in Idx : colFull(m, i)}
      B == {bl \in Off \X Off : blockFull(m, bl[1], bl[2])}
  IN  [board  |-> [r \in Idx |-> [q \in Idx |->
                    /\ m[r][q]
                    /\ r \notin R
                    /\ q \notin C
                    /\ <<r \div K, q \div K>> \notin B]],
       score  |-> s + Award * (Cardinality(R) + Cardinality(C) + Cardinality(B)),
       rows   |-> R,
       cols   |-> C,
       blocks |-> B]

\* The body of place() under `if self.legal()`, up to the piece replacement.
placed(b, s, c) ==
  blockPass(colPass(rowPass([board |-> copyMask(b, c), score |-> s,
                             rows |-> {}, cols |-> {}, blocks |-> {}], 0), 0), 0)

\* ----------------------------------------------------------- Sudoku::shift
Dirs == {"Up", "Down", "Left", "Right"}

\* Right and Down clamped one cell too far (< 9 - 2).
shiftedFar(c, dir) ==
  CASE dir = "Up"    -> IF c.y > 0 THEN [c EXCEPT !.y = @ - 1] ELSE c
    [] dir = "Down"  -> IF c.y < N - K + 1 THEN [c EXCEPT !.y = @ + 1] ELSE c
    [] dir = "Left"  -> IF c.x > 0 THEN [c EXCEPT !.x = @ - 1] ELSE c
    [] dir = "Right" -> IF c.x < N - K + 1 THEN [c EXCEPT !.x = @ + 1] ELSE c

\* Left stops one cell short of the edge (x > 1).
shiftedShort(c, dir) ==
  CASE dir = "Up"    -> IF c.y > 0 THEN [c EXCEPT !.y = @ - 1] ELSE c
    [] dir = "Down"  -> IF c.y < N - K THEN [c EXCEPT !.y = @ + 1] ELSE c
    [] dir = "Left"  -> IF c.x > 1 THEN [c EXCEPT !.x = @ - 1] ELSE c
    [] dir = "Right" -> IF c.x < N - K THEN [c EXCEPT !.x = @ + 1] ELSE c

\* The moved piece rebuilt from Piece::new(), whose shape is blank.
shiftedBlank(c, dir) ==
  CASE dir = "Up"    -> IF c.y > 0 THEN [x |-> c.x, y |-> c.y - 1, shape |-> ShapeOf({})] ELSE c
    [] dir = "Down"  -> IF c.y < N - K THEN [x |-> c.x, y |-> c.y + 1, shape |-> ShapeOf({})] ELSE c
    [] dir = "Left"  -> IF c.x > 0 THEN [x |-> c.x - 1, y |-> c.y, shape |-> ShapeOf({})] ELSE c
    [] dir = "Right" -> IF c.x < N - K THEN [x |-> c.x + 1, y |-> c.y, shape |-> ShapeOf({})] ELSE c

\* A move refused when the piece would come to lie over occupied cells.
shiftedIfFree(c, dir) ==
  LET n == CASE dir = "Up"    -> IF c.y > 0 THEN [c EXCEPT !.y = @ - 1] ELSE c
             [] dir = "Down"  -> IF c.y < N - K THEN [c EXCEPT !.y = @ + 1] ELSE c
             [] dir = "Left"  -> IF c.x > 0 THEN [c EXCEPT !.x = @ - 1] ELSE c
             [] dir = "Right" -> IF c.x < N - K THEN [c EXCEPT !.x = @ + 1] ELSE c
  IN  IF legal(board, n) THEN n ELSE c

shifted(c, dir) ==
  CASE dir = "Up"    -> IF c.y > 0 THEN [c EXCEPT !.y = @ - 1] ELSE c
    [] dir = "Down"  -> IF c.y < N - K THEN [c EXCEPT !.y = @ + 1] ELSE c
    [] dir = "Left"  -> IF c.x > 0 THEN [c EXCEPT !.x = @ - 1] ELSE c
    [] dir = "Right" -> IF c.x < N - K THEN [c EXCEPT !.x = @ + 1] ELSE c

\* ------------------------------------------------------------------ history
Snapshot == [board |-> board, score |-> score, curr |-> curr]

NoClears == [rows |-> {}, cols |-> {}, blocks |-> {}]

\* No run of shifts is under way.
NoRun(on) == [on |-> on, n |-> 0, from |-> <<0, 0>>]

\* --------------------------------------------------------- mid-game boards
RowCells(r) == {r} \X Idx
ColCells(c) == Idx \X {c}
BlockCells(bl) == {p \in Cells : p[1] \div K = bl[1] /\ p[2] \div K = bl[2]}
Blocks == Off \X Off

\* The cells of several rows, columns or blocks.
RowsCells(R) == UNION {RowCells(r) : r \in R}
ColsCells(C) == UNION {ColCells(c) : c \in C}
BlocksCells(B) == UNION {BlockCells(bl) : bl \in B}

\* Boards of a game in progress: the named rows, columns and blocks occupied
\* but for the holes, plus some cells elsewhere.  No row, column or block of
\* any of them is full, so each is reached from Sudoku::new() by placing
\* its cells one at a time with one-cell masks (a one-cell mask covers any
\* board cell from some position in [0,6]x[0,6], and no placement on the
\* way completes a region, so nothing is cleared).
Scenarios ==
  { [rows |-> {},     cols |-> {},     blocks |-> {},         holes |-> {},
     extra |-> {}],
    [rows |-> {3},    cols |-> {},     blocks |-> {},         holes |-> {<<3, 4>>},
     extra |-> {<<0, 0>>, <<5, 4>>, <<7, 7>>}],
    [rows |-> {8},    cols |-> {},     blocks |-> {},         holes |-> {<<8, 8>>},
     extra |-> {<<7, 8>>, <<0, 1>>}],
    [rows |-> {},     cols |-> {4},    blocks |-> {},         holes |-> {<<3, 4>>},
     extra |-> {<<3, 3>>, <<8, 0>>}],
    [rows |-> {},     cols |-> {},     blocks |-> {<<1, 1>>}, holes |-> {<<3, 4>>},
     extra |-> {<<3, 0>>, <<0, 4>>}],
    [rows |-> {3},    cols |-> {4},    blocks |-> {},         holes |-> {<<3, 4>>},
     extra |-> {<<0, 0>>, <<4, 5>>}],
    [rows |-> {3},    cols |-> {},     blocks |-> {<<1, 1>>}, holes |-> {<<3, 4>>},
     extra |-> {<<8, 8>>}],
    [rows |-> {},     cols |-> {4},    blocks |-> {<<1, 1>>}, holes |-> {<<3, 4>>},
     extra |-> {<<8, 8>>}],
    [rows |-> {3},    cols |-> {4},    blocks |-> {<<1, 1>>}, holes |-> {<<3, 4>>},
     extra |-> {<<0, 0>>, <<7, 7>>, <<2, 5>>}],
    [rows |-> {2},    cols |-> {},     blocks |-> {<<1, 0>>}, holes |-> {<<2, 0>>, <<3, 0>>},
     extra |-> {<<6, 6>>}],
    [rows |-> {3, 4}, cols |-> {},     blocks |-> {},         holes |-> {<<3, 4>>, <<4, 4>>},
     extra |-> {<<5, 4>>}],
    [rows |-> {},     cols |-> {4, 5}, blocks |-> {},         holes |-> {<<3, 4>>, <<3, 5>>},
     extra |-> {<<3, 6>>}],
    [rows |-> {},     cols |-> {},     blocks |-> {<<1, 1>>, <<1, 2>>},
     holes |-> {<<3, 5>>, <<3, 6>>},
     extra |-> {<<2, 5>>}],
    [rows |-> {2},    cols |-> {2},    blocks |-> {<<1, 1>>},
     holes |-> (2 .. 4) \X (2 .. 4),
     extra |-> {<<8, 0>>}],
    [rows |-> {},     cols |-> {},     blocks |-> {},         holes |-> {},
     extra |-> {2, 5, 8} \X {2, 5, 8}] }

ScenarioCells(s) ==
  ((RowsCells(s.rows) \cup ColsCells(s.cols) \cup BlocksCells(s.blocks))
      \ s.holes) \cup s.extra

MidBoards == {BoardOf(ScenarioCells(s)) : s \in Scenarios}

\* ------------------------------------------------------------------ actions
\* Sudoku::new(): the empty board, score 0, a random piece.
Init ==
  /\ board = EmptyBoard
  /\ score = 0
  /\ \E sh \in Shapes : curr = random(sh)
  /\ nplaced = 0
  /\ last = [op |-> "new", pre |-> [board |-> board, score |-> score, curr |-> curr],
             cleared |-> NoClears]
  /\ run = NoRun(FALSE)

\* A game in progress, just after a placement: a mid-game board, a fresh
\* piece, and one more placement to explore.
MidGame ==
  /\ board \in MidBoards
  /\ score = 0
  /\ \E sh \in Shapes : curr = random(sh)
  /\ nplaced = MaxPlace - 1
  /\ last = [op |-> "new", pre |-> [board |-> board, score |-> score, curr |-> curr],
             cleared |-> NoClears]

InitMid == MidGame /\ run = NoRun(FALSE)

\* The same, with the runs of shifts kept as history.
InitRuns == MidGame /\ run = NoRun(TRUE)

\* The control loop of main() ends (Esc) once MaxPlace pieces are placed.
Running == nplaced < MaxPlace

shift(dir) ==
  /\ Running
  /\ curr' = shifted(curr, dir)
  /\ UNCHANGED <<board, score, nplaced>>
  /\ last' = [op |-> dir, pre |-> Snapshot, cleared |-> NoClears]
  /\ run' = IF ~run.on THEN run
            ELSE IF last.op = dir
            THEN [run EXCEPT !.n = IF @ < MaxRun THEN @ + 1 ELSE MaxRun]
            ELSE [on |-> TRUE, n |-> 1, from |-> <<curr.x, curr.y>>]

\* place() without its `if self.legal()`.
placeUnchecked ==
  /\ Running
  /\ \E r \in {placed(board, score, curr)} :
       /\ board' = r.board
       /\ score' = r.score
       /\ last' = [op |-> "place", pre |-> Snapshot,
                   cleared |-> [rows |-> r.rows, cols |-> r.cols,
                                blocks |-> r.blocks]]
  /\ \E sh \in Shapes : curr' = random(sh)
  /\ nplaced' = nplaced + 1
  /\ run' = NoRun(run.on)

\* place() that deals a new piece when the current one fits nowhere.
placeRedrawsWhenStuck ==
  /\ Running
  /\ IF legal(board, curr)
     THEN /\ \E r \in {placed(board, score, curr)} :
                /\ board' = r.board
                /\ score' = r.score
                /\ last' = [op |-> "place", pre |-> Snapshot,
                            cleared |-> [rows |-> r.rows, cols |-> r.cols,
                                         blocks |-> r.blocks]]
          /\ \E sh \in Shapes : curr' = random(sh)
          /\ nplaced' = nplaced + 1
     ELSE /\ UNCHANGED <<board, score, nplaced>>
          /\ IF \E x \in 0 .. N - K : \E y \in 0 .. N - K :
                  legal(board, [x |-> x, y |-> y, shape |-> curr.shape])
             THEN curr' = curr
             ELSE \E sh \in Shapes : curr' = random(sh)
          /\ last' = [op |-> "place", pre |-> Snapshot, cleared |-> NoClears]
  /\ run' = NoRun(run.on)

\* place() with the new piece left where the old one was.
placeKeepsPosition ==
  /\ Running
  /\ IF legal(board, curr)
     THEN /\ \E r \in {placed(board, score, curr)} :
                /\ board' = r.board
                /\ score' = r.score
                /\ last' = [op |-> "place", pre |-> Snapshot,
                            cleared |-> [rows |-> r.rows, cols |-> r.cols,
                                         blocks |-> r.blocks]]
          /\ \E sh \in Shapes : curr' = [curr EXCEPT !.shape = sh]
          /\ nplaced' = nplaced + 1
     ELSE /\ UNCHANGED <<board, score, curr, nplaced>>
          /\ last' = [op |-> "place", pre |-> Snapshot, cleared |-> NoClears]
  /\ run' = NoRun(run.on)

\* place() that does nothing at all for a mask with no occupied cell.
placeSkipsEmpty ==
  /\ Running
  /\ IF legal(board, curr) /\ ShapeCells(curr.shape) # {}
     THEN /\ \E r \in {placed(board, score, curr)} :
                /\ board' = r.board
                /\ score' = r.score
                /\ last' = [op |-> "place", pre |-> Snapshot,
                            cleared |-> [rows |-> r.rows, cols |-> r.cols,
                                         blocks |-> r.blocks]]
          /\ \E sh \in Shapes : curr' = random(sh)
          /\ nplaced' = nplaced + 1
     ELSE /\ UNCHANGED <<board, score, curr, nplaced>>
          /\ last' = [op |-> "place", pre |-> Snapshot, cleared |-> NoClears]
  /\ run' = NoRun(run.on)

place ==
  /\ Running
  /\ IF legal(board, curr)
     THEN /\ \E r \in {placed(board, score, curr)} :
                /\ board' = r.board
                /\ score' = r.score
                /\ last' = [op |-> "place", pre |-> Snapshot,
                            cleared |-> [rows |-> r.rows, cols |-> r.cols,
                                         blocks |-> r.blocks]]
          /\ \E sh \in Shapes : curr' = random(sh)
          /\ nplaced' = nplaced + 1
     ELSE /\ UNCHANGED <<board, score, curr, nplaced>>
          /\ last' = [op |-> "place", pre |-> Snapshot, cleared |-> NoClears]
  /\ run' = NoRun(run.on)

shiftUp == shift("Up")
shiftDown == shift("Down")
shiftLeft == shift("Left")
shiftRight == shift("Right")

Next == shiftUp \/ shiftDown \/ shiftLeft \/ shiftRight \/ place

Spec == Init /\ [][Next]_vars

SpecMid == InitMid /\ [][Next]_vars

SpecRuns == InitRuns /\ [][Next]_vars

\* =============================================================== properties
\* What the claims say, stated on the board and the piece without the code's
\* loops.  `last.pre` is the state the last call was made in.
pre == last.pre

Max(a, b) == IF a >= b THEN a ELSE b
Min(a, b) == IF a <= b THEN a ELSE b

\* The occupied mask cells of piece c that lie over occupied cells of b.
Overlap(b, c) ==
  {p \in Off \X Off : c.shape[p[1]][p[2]] /\ b[c.x + p[1]][c.y + p[2]]}

\* The board cells piece c covers with occupied mask cells.
Covered(c) == {<<c.x + p[1], c.y + p[2]>> : p \in ShapeCells(c.shape)}

PlacedLegally == last.op = "place" /\ Overlap(pre.board, pre.curr) = {}
PlacedIllegally == last.op = "place" /\ Overlap(pre.board, pre.curr) # {}

\* C1: place() called where some occupied mask cell lies over an occupied
\* board cell leaves the board, the score, the mask and the position as
\* they were.
C1_IllegalPlaceIsNoOp ==
  PlacedIllegally =>
    /\ board = pre.board
    /\ score = pre.score
    /\ curr.shape = pre.curr.shape
    /\ curr.x = pre.curr.x
    /\ curr.y = pre.curr.y

C1_Witness ==
  /\ PlacedIllegally
  /\ curr.x > 0
  /\ curr.y > 0
  /\ Cardinality(ShapeCells(curr.shape) \ Overlap(board, curr)) > 0

\* C2: from Sudoku::new(), under any shifts and placements, the position
\* stays in [0,6]x[0,6], so every board index x+i, y+j is in 0..8.
C2_PositionInBounds ==
  /\ curr.x \in 0 .. 6
  /\ curr.y \in 0 .. 6
  /\ \A i \in Off : \A j \in Off : curr.x + i \in Idx /\ curr.y + j \in Idx

\* Right and Down were called at the far corner and clamped.
C2_Witness ==
  /\ curr.x = 6
  /\ curr.y = 6
  /\ last.op = "Down"
  /\ pre.curr.y = 6

\* C3: legal() is true exactly when no occupied mask cell lies over an
\* occupied board cell; with exactly one such cell it is false, and true
\* once that board cell is emptied.
C3_LegalIffNoOverlap ==
  /\ legal(board, curr) <=> Overlap(board, curr) = {}
  /\ \A p \in Overlap(board, curr) :
       Overlap(board, curr) = {p} =>
         /\ ~legal(board, curr)
         /\ legal([board EXCEPT ![curr.x + p[1]][curr.y + p[2]] = FALSE], curr)

C3_Witness ==
  /\ last.op \in Dirs
  /\ Cardinality(Overlap(board, curr)) = 1
  /\ Cardinality(ShapeCells(curr.shape)) > 1
  /\ ~legal(board, curr)

\* C4: a one-cell mask placed on the one empty cell of a row with eight
\* occupied cells empties the whole row and adds exactly 9 to the score.
FillsLastCellOfRow(r) ==
  /\ last.op = "place"
  /\ Cardinality({j \in Idx : pre.board[r][j]}) = N - 1
  /\ Cardinality(ShapeCells(pre.curr.shape)) = 1
  /\ \E j \in Idx : ~pre.board[r][j] /\ Covered(pre.curr) = {<<r, j>>}

C4_SingleRowClear ==
  \A r \in Idx :
    FillsLastCellOfRow(r) =>
      /\ \A j \in Idx : ~board[r][j]
      /\ score = pre.score + 9

C4_Witness == FillsLastCellOfRow(8) /\ score = pre.score + 9

\* The board once the occupied mask cells are copied in, and after the
\* clears of each pass, as sets of cells.
Copied == BoardOf(Occupied(pre.board) \cup Covered(pre.curr))

FullRows(b) == {r \in Idx : RowCells(r) \subseteq Occupied(b)}
FullCols(b) == {c \in Idx : ColCells(c) \subseteq Occupied(b)}
FullBlocks(b) == {bl \in Blocks : BlockCells(bl) \subseteq Occupied(b)}

AfterRows(b) == BoardOf(Occupied(b) \ RowsCells(FullRows(b)))
AfterCols(b) == BoardOf(Occupied(b) \ ColsCells(FullCols(b)))
AfterBlocks(b) == BoardOf(Occupied(b) \ BlocksCells(FullBlocks(b)))

\* The placement completes exactly one row, one column and one block: none
\* was full before, and after the mask copy one of each is.
CompletesOneOfEach ==
  /\ PlacedLegally
  /\ Cardinality(FullRows(Copied)) = 1
  /\ Cardinality(FullCols(Copied)) = 1
  /\ Cardinality(FullBlocks(Copied)) = 1
  /\ FullRows(pre.board) = {}
  /\ FullCols(pre.board) = {}
  /\ FullBlocks(pre.board) = {}

\* C5 as claimed: a placement that completes a row, a column and a block at
\* once adds exactly 27, leaves the three regions empty and every cell
\* outside them as it was.
C5_TripleClearAwards27 ==
  CompletesOneOfEach =>
    \A r \in FullRows(Copied) : \A c \in FullCols(Copied) :
      \A bl \in FullBlocks(Copied) :
        LET three == RowCells(r) \cup ColCells(c) \cup BlockCells(bl)
        IN  /\ score = pre.score + 27
            /\ Occupied(board) \cap three = {}
            /\ Occupied(board) \ three = Occupied(Copied) \ three

\* C5 amended: such a placement clears the row (9); the column is never
\* cleared, because its cell in the cleared row is empty when the column
\* pass runs; the block is cleared (9 more) only when it shares no cell with
\* the cleared row.  The score rises by 9 or 18, and every cell outside the
\* cleared regions is as the mask copy left it.
C5_TripleCompletionClearsRowFirst ==
  CompletesOneOfEach =>
    \A r \in FullRows(Copied) : \A c \in FullCols(Copied) :
      \A bl \in FullBlocks(Copied) :
        LET meets == bl[1] = r \div K
            gone == RowCells(r) \cup (IF meets THEN {} ELSE BlockCells(bl))
        IN  /\ score = pre.score + (IF meets THEN 9 ELSE 18)
            /\ Occupied(board) = Occupied(Copied) \ gone
            /\ \A i \in Idx : board[i][c] <=> (i # r /\ <<i, c>> \notin gone)

\* The block lies off the completed row: the row and the block are cleared,
\* the column is not, and the score rises by 18.
C5_Witness ==
  /\ CompletesOneOfEach
  /\ \E r \in FullRows(Copied) : \E bl \in FullBlocks(Copied) : bl[1] # r \div K
  /\ score = pre.score + 18

\* C6: in a legal place(), column c is cleared exactly when all nine of its
\* cells are occupied on the board the row pass left (mask copied in, full
\* rows emptied); a cleared column is empty afterwards, and outside the
\* blocks cleared later every column cell is what the column pass left.
C6_ColumnPassAfterRowPass ==
  PlacedLegally =>
    LET rowsDone == AfterRows(Copied)
        colsDone == AfterCols(rowsDone)
    IN  \A c \in Idx :
          /\ c \in last.cleared.cols <=> c \in FullCols(rowsDone)
          /\ c \in last.cleared.cols => \A i \in Idx : ~board[i][c]
          /\ \A i \in Idx :
               <<i \div K, c \div K>> \notin last.cleared.blocks =>
                 board[i][c] = colsDone[i][c]

\* A column that was full once the mask was copied in, and was not cleared
\* because the row pass had emptied one of its cells.
C6_Witness ==
  /\ PlacedLegally
  /\ \E c \in FullCols(Copied) : c \notin last.cleared.cols
  /\ last.cleared.rows # {}

\* C7: in a legal place(), each of the nine blocks is cleared exactly when
\* all nine of its cells are still occupied after the mask copy, the row
\* clears and the column clears, each block on its own; the board that
\* results is that board with the full blocks emptied.
C7_BlockPassAfterRowsAndCols ==
  PlacedLegally =>
    LET colsDone == AfterCols(AfterRows(Copied))
    IN  /\ \A bl \in Blocks :
             bl \in last.cleared.blocks <=> bl \in FullBlocks(colsDone)
        /\ board = AfterBlocks(colsDone)

\* A block that was full once the mask was copied in, and was not cleared
\* because an earlier pass had emptied some of its cells.
C7_Witness ==
  /\ PlacedLegally
  /\ \E bl \in FullBlocks(Copied) : bl \notin last.cleared.blocks

\* C8: after a run of n consecutive shift(Left) calls begun at (x0, y0) the
\* position is (max(x0 - n, 0), y0), so x is 0 from the sixth call on at the
\* latest and stays 0; likewise Right ends at x = 6, Up at y = 0 and Down
\* at y = 6, the other coordinate untouched.  (run.n counts the run and
\* saturates at MaxRun; run.from is where the run began.)
C8_RunsClampAtEdges ==
  run.on =>
    LET x0 == run.from[1]
        y0 == run.from[2]
        n == run.n
    IN  /\ last.op = "Left"  => curr.x = Max(x0 - n, 0) /\ curr.y = y0
        /\ last.op = "Right" => curr.x = Min(x0 + n, 6) /\ curr.y = y0
        /\ last.op = "Up"    => curr.y = Max(y0 - n, 0) /\ curr.x = x0
        /\ last.op = "Down"  => curr.y = Min(y0 + n, 6) /\ curr.x = x0
        /\ (last.op = "Left" /\ n >= 6) => curr.x = 0
        /\ (last.op = "Right" /\ n >= 6) => curr.x = 6
        /\ (last.op = "Up" /\ n >= 6) => curr.y = 0
        /\ (last.op = "Down" /\ n >= 6) => curr.y = 6

\* Seven calls of shift(Left) from x = 6: the seventh found x at 0.
C8_Witness ==
  /\ run.on
  /\ last.op = "Left"
  /\ run.from[1] = 6
  /\ run.n = 7
  /\ pre.curr.x = 0
  /\ curr.x = 0

\* C9: shift(dir) changes neither the board, nor the score, nor the mask.
C9_ShiftKeepsBoardScoreMask ==
  last.op \in Dirs =>
    /\ board = pre.board
    /\ score = pre.score
    /\ curr.shape = pre.curr.shape

C9_Witness ==
  /\ last.op \in Dirs
  /\ <<curr.x, curr.y>> # <<pre.curr.x, pre.curr.y>>
  /\ Occupied(board) # {}
  /\ ShapeCells(curr.shape) # {}

\* C10: the position after shift(dir) is the old position moved one cell in
\* that direction and clamped to [0,6], whatever the board holds.
Moved(dir, x, y) ==
  CASE dir = "Up"    -> <<x, Max(y - 1, 0)>>
    [] dir = "Down"  -> <<x, Min(y + 1, 6)>>
    [] dir = "Left"  -> <<Max(x - 1, 0), y>>
    [] dir = "Right" -> <<Min(x + 1, 6), y>>

C10_ShiftIgnoresOccupancy ==
  last.op \in Dirs =>
    <<curr.x, curr.y>> = Moved(last.op, pre.curr.x, pre.curr.y)

\* A shift that moved a legally placed piece over occupied cells.
C10_Witness ==
  /\ last.op \in Dirs
  /\ Overlap(pre.board, pre.curr) = {}
  /\ Overlap(board, curr) # {}
  /\ <<curr.x, curr.y>> # <<pre.curr.x, pre.curr.y>>
  /\ ~legal(board, curr)

\* The cells of the rows, columns and blocks the last call cleared.
ClearedCells ==
  RowsCells(last.cleared.rows) \cup ColsCells(last.cleared.cols)
    \cup BlocksCells(last.cleared.blocks)

\* C11: after a legal place() a cell of a row, column or block cleared in
\* that call is unoccupied, and every other cell is occupied exactly when
\* it was occupied before the call or an occupied mask cell covers it.
C11_BoardAfterPlace ==
  PlacedLegally =>
    \A p \in Cells :
      board[p[1]][p[2]] <=>
        /\ p \notin ClearedCells
        /\ (pre.board[p[1]][p[2]] \/ p \in Covered(pre.curr))

\* A placement of a two-cell mask away from the origin that cleared
\* something and left cells of the old board and of the mask standing.
C11_Witness ==
  /\ PlacedLegally
  /\ ClearedCells # {}
  /\ Cardinality(Covered(pre.curr)) = 2
  /\ Covered(pre.curr) \ ClearedCells # {}
  /\ Occupied(pre.board) \cap Occupied(board) # {}

\* C12: one place() adds 9 for every row, column and block it clears (the
\* rows full after the mask copy, the columns full after the row clears,
\* the blocks full after the column clears) and adds nothing when nothing
\* is cleared or the placement is illegal.
C12_ScoreIsNinePerClear ==
  /\ PlacedLegally =>
       /\ score - pre.score =
            9 * (Cardinality(last.cleared.rows) + Cardinality(last.cleared.cols)
                   + Cardinality(last.cleared.blocks))
       /\ score - pre.score =
            9 * (Cardinality(FullRows(Copied))
                   + Cardinality(FullCols(AfterRows(Copied)))
                   + Cardinality(FullBlocks(AfterCols(AfterRows(Copied)))))
  /\ PlacedIllegally => score = pre.score

\* Two columns cleared by one placement: 18.
C12_Witness ==
  /\ PlacedLegally
  /\ Cardinality(last.cleared.cols) = 2
  /\ score = pre.score + 18

\* C13: from Sudoku::new(), no call lowers the score.
C13_ScoreNeverDecreases ==
  /\ score >= pre.score
  /\ pre.score >= 0

\* A placement from the empty board that scored.
C13_Witness ==
  /\ last.op = "place"
  /\ pre.score = 0
  /\ score > 0

\* C14: after a place() made where legal() held, the piece is at (0, 0)
\* whatever its position was, and its mask is a fresh draw: wherever a
\* placement is legal, every mask Piece::random can draw is a possible next
\* mask, whatever the board and the old mask are (looked at for the pieces
\* at (0, 0), (3, 3) and (6, 6), which meet every board and every old mask).
C14_FreshPieceAtOrigin ==
  /\ PlacedLegally =>
       /\ curr.x = 0
       /\ curr.y = 0
       /\ curr.shape \in Shapes
  /\ (Running /\ curr.x = curr.y /\ curr.x % K = 0 /\ Overlap(board, curr) = {}) =>
       \A sh \in Shapes : ENABLED (place /\ curr' = random(sh))

C14_Witness ==
  /\ PlacedLegally
  /\ pre.curr.x > 0
  /\ pre.curr.y > 0
  /\ curr.x = 0
  /\ curr.y = 0
  /\ curr.shape # pre.curr.shape
  /\ ShapeCells(curr.shape) # {}

\* C15: a mask with no occupied cell is legal at every position, and
\* placing it changes no board cell and not the score.
C15_EmptyMaskContributesNothing ==
  /\ ShapeCells(curr.shape) = {} => legal(board, curr)
  /\ (last.op = "place" /\ ShapeCells(pre.curr.shape) = {}) =>
       /\ PlacedLegally
       /\ board = pre.board
       /\ score = pre.score

\* The empty mask placed away from the origin on a board that holds cells.
C15_Witness ==
  /\ last.op = "place"
  /\ ShapeCells(pre.curr.shape) = {}
  /\ pre.curr.x > 0
  /\ pre.curr.y > 0
  /\ Occupied(board) # {}
  /\ nplaced = MaxPlace

\* C16 as claimed: a place() that changes neither the board nor the score
\* does not replace the piece: mask and position stay as they were.
C16_NoEffectKeepsPiece ==
  (last.op = "place" /\ board = pre.board /\ score = pre.score) =>
    /\ curr.shape = pre.curr.shape
    /\ curr.x = pre.curr.x
    /\ curr.y = pre.curr.y

\* C16 amended: place() has side effects only on a legal placement, and on
\* every legal placement it replaces the piece, also when board and score
\* stay as they were (which happens exactly for the mask with no occupied
\* cell): the position is reset to (0, 0) and the mask drawn afresh.  An
\* illegal place() keeps mask and position.
C16_LegalPlaceAlwaysReplacesPiece ==
  /\ (PlacedLegally /\ board = pre.board /\ score = pre.score) =>
       /\ ShapeCells(pre.curr.shape) = {}
       /\ curr.x = 0
       /\ curr.y = 0
       /\ curr.shape \in Shapes
       /\ nplaced > 0
  /\ (PlacedLegally /\ ShapeCells(pre.curr.shape) = {}) =>
       /\ board = pre.board
       /\ score = pre.score
       /\ curr.x = 0
       /\ curr.y = 0
  /\ PlacedIllegally =>
       /\ board = pre.board
       /\ score = pre.score
       /\ curr.shape = pre.curr.shape
       /\ curr.x = pre.curr.x
       /\ curr.y = pre.curr.y

\* The empty mask placed at (3, 3): board and score as before, the piece
\* replaced by one with cells at (0, 0).
C16_Witness ==
  /\ PlacedLegally
  /\ board = pre.board
  /\ score = pre.score
  /\ pre.curr.x = 3
  /\ pre.curr.y = 3
  /\ curr.x = 0
  /\ curr.y = 0
  /\ ShapeCells(curr.shape) # {}

\* The mask sh has an occupied cell over an occupied cell of b at every one
\* of the 49 positions.
Stuck(b, sh) ==
  \A x \in 0 .. N - K : \A y \in 0 .. N - K :
    Overlap(b, [x |-> x, y |-> y, shape |-> sh]) # {}

\* The board after place() calls made from board b with the one-cell mask
\* (its cell at (2, 2)) moved to each position of the sequence in turn.
RECURSIVE placeEach(_, _)
placeEach(b, at) ==
  IF at = <<>> THEN b
  ELSE LET c == [x |-> Head(at)[1], y |-> Head(at)[2],
                 shape |-> ShapeOf({<<2, 2>>})]
       IN  IF legal(b, c) THEN placeEach(placed(b, 0, c).board, Tail(at))
           ELSE placeEach(b, Tail(at))

\* Nine placements that fill the cells {2,5,8} x {2,5,8}.
StuckPath ==
  << <<0, 0>>, <<0, 3>>, <<0, 6>>, <<3, 0>>, <<3, 3>>, <<3, 6>>, <<6, 0>>,
     <<6, 3>>, <<6, 6>> >>

StuckBoard == BoardOf({2, 5, 8} \X {2, 5, 8})

\* C17: there is no game over.  A board on which the piece fits at none of
\* the 49 positions is reached from the empty board by place() calls, and
\* from a state with such a piece every shift and every place() leaves the
\* board, the score and the mask as they were, so the piece still fits
\* nowhere after it, while place() and the four shifts stay callable.
C17_StuckForever ==
  /\ (last.op # "new" /\ Stuck(pre.board, pre.curr.shape)) =>
       /\ board = pre.board
       /\ score = pre.score
       /\ curr.shape = pre.curr.shape
       /\ Stuck(board, curr.shape)
  /\ (Running /\ Stuck(board, curr.shape)) =>
       /\ ENABLED place
       /\ ENABLED shiftUp
       /\ ENABLED shiftDown
       /\ ENABLED shiftLeft
       /\ ENABLED shiftRight
  /\ (last.op = "place" /\ board = StuckBoard) =>
       /\ placeEach(EmptyBoard, StuckPath) = board
       /\ Stuck(board, ShapeOf(Off \X Off))

\* The full mask refused at (6, 6) after the piece was walked there.
C17_Witness ==
  /\ last.op = "place"
  /\ Stuck(pre.board, pre.curr.shape)
  /\ curr.x = 6
  /\ curr.y = 6
  /\ board = StuckBoard
  /\ Running

\* C18: in every state reached from Sudoku::new() no row, no column and no
\* 3x3 block of the board is fully occupied.
C18_NoFullRegion ==
  /\ \A r \in Idx : \E c \in Idx : ~board[r][c]
  /\ \A c \in Idx : \E r \in Idx : ~board[r][c]
  /\ \A i \in Off : \A j \in Off :
       \E r \in Idx : \E c \in Idx : r \div K = i /\ c \div K = j /\ ~board[r][c]

\* A placement that completed a region, which the passes then cleared.
C18_Witness ==
  /\ PlacedLegally
  /\ FullRows(Copied) \cup FullCols(Copied) \cup FullBlocks(Copied) # {}
  /\ FullRows(board) = {}
  /\ FullCols(board) = {}
  /\ FullBlocks(board) = {}

\* C19: within one place() a row clear and a column clear never both
\* happen.  The rows cleared are the rows the mask copy filled; if there is
\* one, no column is cleared, and no block cleared shares a cell with a
\* cleared row or a cleared column.
C19_RowClearExcludesColumnClear ==
  last.op = "place" =>
    /\ PlacedLegally => last.cleared.rows = FullRows(Copied)
    /\ last.cleared.rows # {} => last.cleared.cols = {}
    /\ \A bl \in last.cleared.blocks :
         /\ BlockCells(bl) \cap RowsCells(last.cleared.rows) = {}
         /\ BlockCells(bl) \cap ColsCells(last.cleared.cols) = {}

\* A row and a block cleared by one placement that also filled a column.
C19_Witness ==
  /\ PlacedLegally
  /\ last.cleared.rows # {}
  /\ last.cleared.blocks # {}
  /\ FullCols(Copied) # {}
  /\ last.cleared.cols = {}

====
